---- MODULE Spec2Model ----
(***************************************************************************)
(* Attendify backend (backend/app.py, backend/models.py): the consent-     *)
(* gated embedding pipeline as a state machine.  One process is modelled:  *)
(* boot (demo seeding), then the request handlers api_login, api_consent,  *)
(* api_enroll and api_recognize, each one atomic step.                     *)
(*                                                                         *)
(* Representation.                                                         *)
(*  - Optional values (Python None) are sequences of length 0 or 1.        *)
(*  - Floats are fixed point: a vector component n stands for n/Unit, a    *)
(*    score n for n/ScoreScale.  The tables of generator draws are chosen  *)
(*    so that every norm is an exact square root; floating-point rounding  *)
(*    is not modelled.                                                     *)
(*  - Byte strings are sequences of byte values; passwords are sequences   *)
(*    of characters; other strings are TLA+ strings.                       *)
(*  - Times of day are minutes since midnight.                             *)
(***************************************************************************)
EXTENDS Integers, Sequences, FiniteSets, TLC

VARIABLES
    phase,            \* "boot" before __main__ has seeded, then "serving"
    fernet_env,       \* os.getenv("ATTENDIFY_FERNET_KEY"): <<>> or <<key>>
    keys_generated,   \* number of Fernet.generate_key() calls so far
    last_key,         \* key of the Fernet returned by the latest _get_fernet
    users,            \* table users, in id order
    students,         \* table students, in id order
    classes,          \* table classes, in id order
    attendance,       \* table attendance, in id order
    enrolled_image,   \* history: image each student row was enrolled with
    issued_tokens,    \* identities of the access tokens issued so far
    request,          \* the request the latest handler served
    response,         \* what it answered (and what it read on the way)
    inflight          \* per server thread: the request it is part-way through

vars == <<phase, fernet_env, keys_generated, last_key, users, students,
          classes, attendance, enrolled_image, issued_tokens, request,
          response, inflight>>

----------------------------------------------------------------------------
(* Bounds of the model *)

\* attendance rows api_recognize may append
MaxLogged == 1
\* Fernet.generate_key() calls in one process
MaxKeyGen == 3
\* attendance rows the threaded api_recognize may append
MaxThreadLogged == 2
\* vector dimension (128 in the code); draws past the tables are 0
EmbeddingDim == 2

----------------------------------------------------------------------------
(* Fixed-point scales and generic helpers *)

Unit == 5 * 5
ScoreScale == 100 * 100

None == <<>>
Some(x) == <<x>>

\* a function on 1..n as the tuple it is
AsSeq(f) == SubSeq(f, 1, Len(f))

Min(a, b) == IF a <= b THEN a ELSE b

RECURSIVE SqrtBetween(_, _, _)
SqrtBetween(n, lo, hi) ==
    IF lo >= hi THEN lo
    ELSE LET mid == (lo + hi + 1) \div 2
         IN IF mid * mid <= n THEN SqrtBetween(n, mid, hi)
            ELSE SqrtBetween(n, lo, mid - 1)

\* math.sqrt on the fixed-point grid (exact on the squares the tables give)
Sqrt(n) == SqrtBetween(n, 0, Min(n, 100 * 100))

RECURSIVE SumSeq(_)
SumSeq(s) == IF s = <<>> THEN 0 ELSE Head(s) + SumSeq(Tail(s))

\* str.endswith
endswith(s, suffix) ==
    /\ Len(suffix) <= Len(s)
    /\ SubSeq(s, Len(s) - Len(suffix) + 1, Len(s)) = suffix

\* bool(x) of a JSON value of the request: true, false, a missing key
\* (the default False) or a non-empty string
Truthy(v) == v \in {"true", "str"}

\* int(x) of a JSON value: None when the key is missing (the caller's
\* default applies), a digit string converts, anything else raises
RECURSIVE DigitsValue(_, _)
DigitsValue(cs, acc) ==
    IF cs = <<>> THEN acc
    ELSE DigitsValue(Tail(cs), acc * 10 + (CHOOSE d \in 0..9 : ToString(d) = Head(cs)))

IsDigits(cs) ==
    /\ cs # <<>>
    /\ \A i \in 1..Len(cs) : \E d \in 0..9 : ToString(d) = cs[i]

\* int(data.get(key, 1)): [ok, value]
IntOrDefault(v) ==
    IF v = None THEN [ok |-> TRUE, value |-> 1]
    ELSE IF IsDigits(v[1]) THEN [ok |-> TRUE, value |-> DigitsValue(v[1], 0)]
    ELSE [ok |-> FALSE, value |-> 0]

----------------------------------------------------------------------------
(* Fernet: a token opens under the key that made it and under no other *)

FernetEncrypt(key, data) == [key |-> key, data |-> data]

\* Fernet.decrypt: the plaintext, or None for cryptography's InvalidToken
FernetDecrypt(key, token) ==
    IF token.key = key THEN Some(token.data) ELSE None

\* The key of the Fernet that _get_fernet returns when gen keys have been
\* generated in this process so far: the configured key (key 0) when the
\* environment variable is set, otherwise a key generated by this very call
_get_fernet(env, gen) ==
    IF env # None THEN env[1] ELSE gen + 1

\* Fernet.generate_key() calls made once _get_fernet has returned
KeysAfter(env, gen) ==
    IF env # None THEN gen ELSE gen + 1

\* whether _get_fernet may be called again within the model's bound
CanGetFernet == fernet_env # None \/ keys_generated < MaxKeyGen

----------------------------------------------------------------------------
(* JSON text of a vector, as bytes *)

\* ASCII: "[", "]", ", ", "." and "0"
LBracket == <<91>>
RBracket == <<93>>
CommaSpace == <<44, 32>>
Dot == 46
Zero == 48

\* repr of the float n/Unit, shortest form with two decimals at most
FloatRepr(n) ==
    LET h == (n * 100) \div Unit
        whole == h \div 100
        d1 == (h % 100) \div 10
        d2 == h % 10
    IN IF d2 = 0 THEN <<Zero + whole, Dot, Zero + d1>>
       ELSE <<Zero + whole, Dot, Zero + d1, Zero + d2>>

RECURSIVE JoinFloats(_)
JoinFloats(vec) ==
    IF vec = <<>> THEN <<>>
    ELSE IF Len(vec) = 1 THEN FloatRepr(vec[1])
    ELSE FloatRepr(vec[1]) \o CommaSpace \o JoinFloats(Tail(vec))

\* json.dumps(vec).encode("utf-8")
json_dumps(vec) == LBracket \o JoinFloats(vec) \o RBracket

IsDigit(b) == b >= Zero /\ b <= Zero + 9

\* one float at position i of b: [ok, value, next]
ParseFloat(b, i) ==
    IF /\ i + 2 <= Len(b)
       /\ IsDigit(b[i]) /\ b[i + 1] = Dot /\ IsDigit(b[i + 2])
    THEN LET two == i + 3 <= Len(b) /\ IsDigit(b[i + 3])
             h == (b[i] - Zero) * 100 + (b[i + 2] - Zero) * 10
                  + (IF two THEN b[i + 3] - Zero ELSE 0)
         IN [ok |-> (h * Unit) % 100 = 0,
             value |-> (h * Unit) \div 100,
             next |-> IF two THEN i + 4 ELSE i + 3]
    ELSE [ok |-> FALSE, value |-> 0, next |-> i]

RECURSIVE ParseFloats(_, _, _)
\* the floats of b from position i up to the closing bracket: None or Some
ParseFloats(b, i, acc) ==
    LET f == ParseFloat(b, i)
    IN IF ~f.ok THEN None
       ELSE IF f.next = Len(b) /\ b[f.next] = RBracket[1]
            THEN Some(Append(acc, f.value))
       ELSE IF /\ f.next + 2 <= Len(b)
               /\ SubSeq(b, f.next, f.next + 1) = CommaSpace
            THEN ParseFloats(b, f.next + 2, Append(acc, f.value))
       ELSE None

\* json.loads(data.decode("utf-8")): None when decoding or parsing raises
json_loads(b) ==
    IF \E i \in 1..Len(b) : b[i] >= 128 THEN None
    ELSE IF Len(b) < 2 \/ b[1] # LBracket[1] THEN None
    ELSE IF Len(b) = 2 THEN (IF b[2] = RBracket[1] THEN Some(<<>>) ELSE None)
    ELSE ParseFloats(b, 2, <<>>)

\* _vector_to_bytes
_vector_to_bytes(vec, fernet) == FernetEncrypt(fernet, json_dumps(vec))

\* _bytes_to_vector: the vector, or None when decrypt, decode or loads raises
_bytes_to_vector(enc_bytes, fernet) ==
    LET data == FernetDecrypt(fernet, enc_bytes)
    IN IF data = None THEN None ELSE json_loads(data[1])

----------------------------------------------------------------------------
(* The embedding generator and the similarity metric *)

\* base64.b64decode: the decoded payload, or None when it raises
b64decode(image_b64) ==
    CASE image_b64 = "imgA" -> Some(1)
      [] image_b64 = "imgC" -> Some(2)
      [] image_b64 = "imgD" -> Some(3)
      [] OTHER -> None

\* the payloads of the model, and what os.urandom(256) may return
Payloads == {1, 2, 3}

\* random.Random(seed).random(), i-th draw, in hundredths; the seed is the
\* SHA-256 prefix of the payload, one per payload
RngDraw(seed, i) ==
    LET draws == CASE seed = 1 -> <<14, 48>>
                   [] seed = 2 -> <<60, 45>>
                   [] OTHER -> <<72, 21>>
    IN IF i <= Len(draws) THEN draws[i] ELSE 0

\* _generate_embedding; urandom is what os.urandom returns if it is asked
_generate_embedding(image_b64, urandom) ==
    LET decoded == b64decode(image_b64)
        raw == IF decoded = None THEN urandom ELSE decoded[1]
        vec == AsSeq([i \in 1..EmbeddingDim |-> RngDraw(raw, i)])
        root == Sqrt(SumSeq([i \in 1..EmbeddingDim |-> vec[i] * vec[i]]))
        norm == IF root = 0 THEN 100 ELSE root
    IN AsSeq([i \in 1..EmbeddingDim |-> (vec[i] * Unit) \div norm])

\* the values os.urandom can take where _generate_embedding reads it
UrandomFor(image_b64) ==
    IF b64decode(image_b64) = None THEN Payloads ELSE {1}

\* _cosine_similarity, as a score in 1/ScoreScale
_cosine_similarity(a, b) ==
    LET n == Min(Len(a), Len(b))
        dot == SumSeq([i \in 1..n |-> a[i] * b[i]])
        na == Sqrt(SumSeq([i \in 1..Len(a) |-> a[i] * a[i]]))
        nb == Sqrt(SumSeq([i \in 1..Len(b) |-> b[i] * b[i]]))
    IN IF na = 0 \/ nb = 0 THEN 0
       ELSE (dot * ScoreScale) \div (na * nb)

\* the acceptance threshold 0.8
Threshold == (8 * ScoreScale) \div 10

----------------------------------------------------------------------------
(* Rows and queries *)

PassPrefix ==
    <<"p", "b", "k", "d", "f", "2", ":", "s", "h", "a", "2", "5", "6", ":">>

\* User.query.filter_by(username=...).first()
UserByName(tbl, username) ==
    LET hits == SelectSeq(tbl, LAMBDA u : u.username = username)
    IN IF hits = <<>> THEN None ELSE Some(hits[1])

\* User.query.get(uid), and the relationship Student.user: the row of
\* primary key uid (row k of the table has id k)
UserById(tbl, uid) ==
    IF uid \in 1..Len(tbl) /\ tbl[uid].id = uid THEN Some(tbl[uid])
    ELSE None

\* Student.query.filter_by(registration_number=...).first()
StudentByRegNo(tbl, reg_no) ==
    LET hits == SelectSeq(tbl, LAMBDA s : s.registration_number = reg_no)
    IN IF hits = <<>> THEN None ELSE Some(hits[1])

\* the CHECK constraints of table students
StudentChecksHold(year, semester) ==
    /\ year >= 1 /\ year <= 6
    /\ semester \in {1, 2}

\* the window of lines 135-136 with both ends excluded
_find_current_class_Strict(tbl, now) ==
    LET hits == SelectSeq(tbl, LAMBDA c :
                    /\ c.day_of_week = now.day
                    /\ c.start_time < now.t
                    /\ c.end_time > now.t)
    IN IF hits = <<>> THEN None ELSE Some(hits[1])

\* _find_current_class at clock reading now
_find_current_class(tbl, now) ==
    LET hits == SelectSeq(tbl, LAMBDA c :
                    /\ c.day_of_week = now.day
                    /\ c.start_time <= now.t
                    /\ c.end_time >= now.t)
    IN IF hits = <<>> THEN None ELSE Some(hits[1])

----------------------------------------------------------------------------
(* Demo data of initialize_database_with_demo_data *)

names ==
    <<"John Doe", "Jane Doe", "Alice Kim", "Bob Otieno", "Peter Njoroge",
      "Mary Wambui", "Samuel Karanja", "Lucy Wangari", "Brian Mwangi",
      "Diana Achieng">>

course_codes == <<"IT101", "IT201", "IT301", "IT401", "IT501">>

RECURSIVE DigitChars(_)
DigitChars(i) ==
    IF i < 10 THEN <<ToString(i)>>
    ELSE DigitChars(i \div 10) \o <<ToString(i % 10)>>

\* f"{i:04d}"
Pad4(i) ==
    IF i < 10 THEN "000" \o ToString(i)
    ELSE IF i < 100 THEN "00" \o ToString(i)
    ELSE IF i < 1000 THEN "0" \o ToString(i)
    ELSE ToString(i)

AdminPassHash(i) ==
    PassPrefix \o <<"a", "d", "m", "i", "n", "p", "a", "s", "s", "h", "a",
                    "s", "h">> \o DigitChars(i)

StudentPassHash(i) ==
    PassPrefix \o <<"s", "t", "u", "d", "e", "n", "t", "p", "a", "s", "s",
                    "h", "a", "s", "h">> \o DigitChars(i)

SeedUsers ==
    AsSeq([k \in 1..(2 + Len(names)) |->
        IF k <= 2
        THEN [id |-> k, username |-> "admin_lecturer" \o ToString(k),
              password_hash |-> AdminPassHash(k), role |-> "admin",
              consent_given |-> TRUE]
        ELSE [id |-> k, username |-> "student" \o ToString(k - 2),
              password_hash |-> StudentPassHash(k - 2), role |-> "student",
              consent_given |-> TRUE]])

SeedClasses ==
    AsSeq([k \in 1..Len(course_codes) |->
        [id |-> k, course_id |-> k, day_of_week |-> "Mon",
         start_time |-> 9 * 60, end_time |-> 11 * 60,
         lecturer_id |-> IF (k - 1) % 2 = 0 THEN 1 ELSE 2]])

\* os.urandom(128) for student i: bytes that are no UTF-8 text
SeedRawEmbedding(i) == <<255, 128 + i>>

\* _encrypt_embedding_if_consented: None for the ValueError the seeding
\* catches
_encrypt_embedding_if_consented(user, raw_bytes, fernet) ==
    IF ~user.consent_given THEN None
    ELSE Some(FernetEncrypt(fernet, raw_bytes))

SeedStudents(fernet) ==
    AsSeq([i \in 1..Len(names) |->
        LET course_name == <<"IT", "CS", "SE", "IS">>[(i % 4) + 1]
        IN [id |-> i, user_id |-> SeedUsers[i + 2].id, name |-> names[i],
            registration_number |-> "EMB-" \o course_name \o "-" \o Pad4(i),
            course |-> course_name, year |-> (i % 4) + 1,
            semester |-> (i % 2) + 1,
            facial_embedding |->
                _encrypt_embedding_if_consented(
                    SeedUsers[i + 2], SeedRawEmbedding(i), fernet)]])

SeedAttendance(student_rows, now) ==
    AsSeq([k \in 1..Min(5, Len(student_rows)) |->
        [id |-> k, student_id |-> student_rows[k].id,
         class_id |-> SeedClasses[1].id, timestamp |-> now,
         status |-> IF student_rows[k].id % 2 = 0 THEN "present"
                    ELSE "absent"]])

----------------------------------------------------------------------------
(* Requests, responses and the clock *)

NoRequest ==
    [op |-> "none", username |-> "", password |-> <<>>, identity |-> 0,
     name |-> "", reg_no |-> "", course |-> "", year |-> None,
     semester |-> None, facial_image_base64 |-> "", consent |-> "absent"]

\* a JSON response: status, the body's keys, and (last four fields) what
\* the handler computed or read on the way
NoResponse ==
    [status |-> 0, error |-> "", message |-> "", access_token |-> None,
     consent_given |-> None, student_id |-> None, matched |-> None,
     score |-> None, attendance_logged |-> None, reason |-> "",
     student |-> None, class |-> None,
     best |-> None, scanned |-> <<>>, probe |-> None, now |-> None,
     encrypted |-> FALSE]

Error(status, error) ==
    [NoResponse EXCEPT !.status = status, !.error = error]

\* the threads of the development server that serve requests side by side
\* (app.run serves each request in a thread of its own)
Threads == {"t1", "t2"}

\* a thread between requests; otherwise op names the handler it is in,
\* data is the request body and outcome what the handler has found so far
Idle == [op |-> "idle", data |-> NoRequest, outcome |-> NoResponse]

\* readings of datetime.now(): around the seeded Monday 09:00-11:00 window
Clock ==
    { [day |-> "Mon", t |-> 9 * 60 - 1], [day |-> "Mon", t |-> 9 * 60],
      [day |-> "Mon", t |-> 11 * 60], [day |-> "Mon", t |-> 11 * 60 + 1],
      [day |-> "Tue", t |-> 10 * 60] }

\* the clock when the process boots
BootClock == { [day |-> "Mon", t |-> 9 * 60 - 1] }

----------------------------------------------------------------------------
(* Inputs of the handlers *)

Changeme == <<"c", "h", "a", "n", "g", "e", "m", "e">>
Secret == <<"s", "3">>

\* POST /api/login bodies <<username, password>>: the enrolled student's
\* own credentials, and a wider set of guesses
LoginBodies == { <<"R1", Secret>> }
LoginProbes ==
    { <<u, p>> : u \in {"R1", "R2", "nobody"},
                 p \in { <<>>, Secret, <<"3">>, <<"x">>, Changeme,
                         PassPrefix \o Secret } }

\* POST /api/consent bodies: the value under "consent"
ConsentValues == {"true", "false"}

EnrollBody(name, reg_no, username, password, image, consent, year, semester) ==
    [NoRequest EXCEPT !.op = "enroll", !.name = name, !.reg_no = reg_no,
                      !.course = "IT", !.username = username,
                      !.password = password, !.year = year,
                      !.semester = semester,
                      !.facial_image_base64 = image, !.consent = consent]

\* POST /api/enroll bodies: well-formed ones for two registration numbers,
\* and one without consent
EnrollBodies ==
    { EnrollBody("Ann", "R1", "", Secret, "imgA", "true", None, None),
      EnrollBody("Ben", "R2", "", <<>>, "imgA", "true",
                 Some(<<"2">>), Some(<<"2">>)),
      EnrollBody("Ben", "R2", "", <<>>, "imgC", "true",
                 Some(<<"2">>), Some(<<"2">>)),
      EnrollBody("Ann", "R1", "", Secret, "imgA", "false", None, None) }

\* a wider set: a username that is another student's, an undecodable
\* image, bodies without consent, with a field missing, or with a year or
\* semester that does not convert or that the table rejects
EnrollProbes ==
    LET who == { <<"Ann", "R1", "", Secret, None, None>>,
                 <<"Ben", "R2", "", <<>>, Some(<<"2">>), Some(<<"2">>)>>,
                 <<"Ben", "R2", "R1", Secret, None, None>> }
    IN  EnrollBodies
        \cup
        { EnrollBody(w[1], w[2], w[3], w[4], "imgA", c, w[5], w[6]) :
            w \in who, c \in {"true", "false", "absent", "str"} }
        \cup
        { EnrollBody("Ann", "R1", "", Secret, "bad", c, None, None) :
            c \in {"true", "false"} }
        \cup
        { EnrollBody("", "R1", "", Secret, "imgA", c, None, None) :
            c \in {"true", "false"} }
        \cup
        { EnrollBody("Ann", "R1", "", Secret, "", c, None, None) :
            c \in {"true", "false"} }
        \cup
        { EnrollBody("Ann", "R1", "", Secret, "imgA", c, y, None) :
            c \in {"true", "false", "absent"},
            y \in {Some(<<"7">>), Some(<<"x">>), Some(<<>>)} }
        \cup
        { EnrollBody("Ann", "R1", "", Secret, "imgA", c, None,
                     Some(<<"3">>)) : c \in {"true", "false"} }

\* POST /api/recognize bodies: the value under "facial_image_base64"
RecognizeImages == {"", "imgA", "imgC", "imgD", "bad"}

----------------------------------------------------------------------------
(* The matching loop of api_recognize *)

\* line 394 negated: the row is a candidate
\* line 394 without the consent test
Eligible_IgnoresConsent(u, s) ==
    ~(u = None \/ s.facial_embedding = None)

Eligible(u, s) ==
    ~(u = None \/ ~u[1].consent_given \/ s.facial_embedding = None)

\* line 399: the candidate replaces the best so far
\* line 399 with >= in place of >
Improves_OrEqual(score, best_score) == score >= best_score

Improves(score, best_score) == score > best_score

\* line 404 negated: the match is confirmed
\* line 404 with <= in place of <
Confirmed_Above(best, best_score) ==
    ~(best = None \/ best_score <= Threshold)

Confirmed(best, best_score) == ~(best = None \/ best_score < Threshold)

\* what the loop holds before the first row
ScanStart == [best |-> None, best_score |-> 0, scanned |-> <<>>]

\* the row's score against the probe, or None when reading it raises
RowScore(s, probe, fernet) ==
    LET vec == _bytes_to_vector(s.facial_embedding[1], fernet)
    IN IF vec = None THEN None
       ELSE Some(_cosine_similarity(probe, vec[1]))

\* one pass of the loop body for row s; scanned lists the rows whose
\* embedding the loop tried to read
\* the loop body with break in place of continue at line 402: a 0 in
\* scanned marks the row that ended the loop
ScanStep_StopsOnError(acc, s, tbl, probe, fernet) ==
    IF acc.scanned # <<>> /\ acc.scanned[Len(acc.scanned)] = 0 THEN acc
    ELSE IF ~Eligible(UserById(tbl, s.user_id), s) THEN acc
    ELSE LET score == RowScore(s, probe, fernet)
             seen == [acc EXCEPT !.scanned = Append(@, s.id)]
         IN IF score = None THEN [acc EXCEPT !.scanned = Append(@, 0)]
            ELSE IF Improves(score[1], acc.best_score)
            THEN [seen EXCEPT !.best = Some(s), !.best_score = score[1]]
            ELSE seen

ScanStep(acc, s, tbl, probe, fernet) ==
    IF ~Eligible(UserById(tbl, s.user_id), s) THEN acc
    ELSE LET score == RowScore(s, probe, fernet)
             seen == [acc EXCEPT !.scanned = Append(@, s.id)]
         IN IF score = None THEN seen
            ELSE IF Improves(score[1], acc.best_score)
            THEN [seen EXCEPT !.best = Some(s), !.best_score = score[1]]
            ELSE seen

RECURSIVE Scan(_, _, _, _, _)
\* for s in Student.query.all()
Scan(rows, tbl, probe, fernet, acc) ==
    IF rows = <<>> THEN acc
    ELSE Scan(Tail(rows), tbl, probe, fernet,
              ScanStep(acc, Head(rows), tbl, probe, fernet))

\* the "student" object of the response
PublicAttributes(s) ==
    [id |-> s.id, name |-> s.name, reg_no |-> s.registration_number,
     course |-> s.course, year |-> s.year, semester |-> s.semester]

\* the "class" object of the response
ClassAttributes(c) ==
    [id |-> c.id, course_id |-> c.course_id, day_of_week |-> c.day_of_week,
     start_time |-> c.start_time, end_time |-> c.end_time]

\* rows api_recognize has appended to table attendance
Logged == Len(SelectSeq(attendance, LAMBDA a : a.id > Min(5, Len(names))))

----------------------------------------------------------------------------
(* The state machine *)

Init ==
    /\ phase = "boot"
    /\ fernet_env \in {None, Some(0)}
    /\ keys_generated = 0
    /\ last_key = None
    /\ users = <<>>
    /\ students = <<>>
    /\ classes = <<>>
    /\ attendance = <<>>
    /\ enrolled_image = <<>>
    /\ issued_tokens = {}
    /\ request = NoRequest
    /\ response = NoResponse
    /\ inflight = [w \in Threads |-> Idle]

\* __main__: seeding, then app.run
initialize_database_with_demo_data ==
    /\ phase = "boot"
    /\ phase' = "serving"
    /\ IF Len(users) > 0
       THEN UNCHANGED <<keys_generated, last_key, users, students, classes,
                        attendance, enrolled_image>>
       ELSE LET fernet == _get_fernet(fernet_env, keys_generated)
                rows == SeedStudents(fernet)
            IN /\ keys_generated' = KeysAfter(fernet_env, keys_generated)
               /\ last_key' = Some(fernet)
               /\ users' = SeedUsers
               /\ classes' = SeedClasses
               /\ students' = rows
               /\ enrolled_image' = AsSeq([i \in 1..Len(rows) |-> "seed"])
               /\ \E now \in BootClock :
                    attendance' = SeedAttendance(rows, now)
    /\ UNCHANGED <<fernet_env, issued_tokens, request, response, inflight>>

\* POST /api/login
api_login(username, password) ==
    /\ phase = "serving"
    /\ request' = [NoRequest EXCEPT !.op = "login", !.username = username,
                                    !.password = password]
    /\ LET user == UserByName(users, username)
       IN IF user = None
          THEN /\ response' = Error(401, "invalid_credentials")
               /\ UNCHANGED issued_tokens
          ELSE IF ~endswith(user[1].password_hash, password)
          THEN /\ response' = Error(401, "invalid_credentials")
               /\ UNCHANGED issued_tokens
          ELSE /\ response' = [NoResponse EXCEPT
                                 !.status = 200,
                                 !.access_token = Some(user[1].id)]
               /\ issued_tokens' = issued_tokens \cup {user[1].id}
    /\ UNCHANGED <<phase, fernet_env, keys_generated, last_key, users,
                   students, classes, attendance, enrolled_image>>

\* api_consent erasing the user's embedding when consent is withdrawn
api_consent_ErasesEmbedding(uid, consent) ==
    /\ phase = "serving"
    /\ uid \in issued_tokens
    /\ request' = [NoRequest EXCEPT !.op = "consent", !.identity = uid,
                                    !.consent = consent]
    /\ IF UserById(users, uid) = None
       THEN /\ response' = Error(404, "not_found")
            /\ UNCHANGED <<users, students>>
       ELSE /\ users' = [users EXCEPT
                           ![uid].consent_given = Truthy(consent)]
            /\ students' = AsSeq([k \in 1..Len(students) |->
                             IF students[k].user_id = uid /\ ~Truthy(consent)
                             THEN [students[k] EXCEPT
                                     !.facial_embedding = None]
                             ELSE students[k]])
            /\ response' = [NoResponse EXCEPT
                              !.status = 200,
                              !.message = "consent_updated",
                              !.consent_given = Some(Truthy(consent))]
    /\ UNCHANGED <<phase, fernet_env, keys_generated, last_key,
                   classes, attendance, enrolled_image, issued_tokens>>

\* POST /api/consent with the access token of identity uid
api_consent(uid, consent) ==
    /\ phase = "serving"
    /\ uid \in issued_tokens
    /\ request' = [NoRequest EXCEPT !.op = "consent", !.identity = uid,
                                    !.consent = consent]
    /\ IF UserById(users, uid) = None
       THEN /\ response' = Error(404, "not_found")
            /\ UNCHANGED users
       ELSE /\ users' = [users EXCEPT
                           ![uid].consent_given = Truthy(consent)]
            /\ response' = [NoResponse EXCEPT
                              !.status = 200,
                              !.message = "consent_updated",
                              !.consent_given = Some(Truthy(consent))]
    /\ UNCHANGED <<phase, fernet_env, keys_generated, last_key, students,
                   classes, attendance, enrolled_image, issued_tokens>>

\* the username and password api_enroll falls back to
EnrollUsername(data) ==
    IF data.username # "" THEN data.username ELSE data.reg_no

EnrollPassword(data) ==
    IF data.password # <<>> THEN data.password ELSE Changeme

\* the consent check left out of api_enroll
EnrollRejection_NoConsentCheck(data, tblUsers, tblStudents) ==
    IF ~IntOrDefault(data.year).ok \/ ~IntOrDefault(data.semester).ok
    THEN Error(500, "server_error")
    ELSE IF "" \in {data.name, data.reg_no, data.course,
                    data.facial_image_base64}
    THEN Error(400, "missing_fields")
    ELSE IF UserByName(tblUsers, EnrollUsername(data)) # None
    THEN Error(409, "user_exists")
    ELSE IF StudentByRegNo(tblStudents, data.reg_no) # None
    THEN Error(409, "student_exists")
    ELSE NoResponse

\* api_enroll up to line 352: the error it returns before any embedding is
\* generated, or NoResponse when the request passes every check.  The two
\* int() conversions come first and raise on a value that does not convert
EnrollRejection(data, tblUsers, tblStudents) ==
    IF ~IntOrDefault(data.year).ok \/ ~IntOrDefault(data.semester).ok
    THEN Error(500, "server_error")
    ELSE IF "" \in {data.name, data.reg_no, data.course,
                    data.facial_image_base64}
    THEN Error(400, "missing_fields")
    ELSE IF ~Truthy(data.consent) THEN Error(403, "consent_required")
    ELSE IF UserByName(tblUsers, EnrollUsername(data)) # None
    THEN Error(409, "user_exists")
    ELSE IF StudentByRegNo(tblStudents, data.reg_no) # None
    THEN Error(409, "student_exists")
    ELSE NoResponse

\* the User row api_enroll adds
EnrollUser(data, id) ==
    [id |-> id, username |-> EnrollUsername(data),
     password_hash |-> PassPrefix \o EnrollPassword(data),
     role |-> "student", consent_given |-> TRUE]

\* the Student row api_enroll adds
EnrollStudent(data, id, user_id, enc_bytes) ==
    [id |-> id, user_id |-> user_id, name |-> data.name,
     registration_number |-> data.reg_no, course |-> data.course,
     year |-> IntOrDefault(data.year).value,
     semester |-> IntOrDefault(data.semester).value,
     facial_embedding |-> Some(enc_bytes)]

\* POST /api/enroll
api_enroll(data, urandom) ==
    /\ phase = "serving"
    /\ request' = data
    /\ \E rejected \in {EnrollRejection(data, users, students)} :
       IF rejected # NoResponse
       THEN /\ response' = rejected
            /\ UNCHANGED <<keys_generated, last_key, users, students,
                           enrolled_image>>
       ELSE
         /\ CanGetFernet
         /\ \E fernet \in {_get_fernet(fernet_env, keys_generated)} :
            \E vec \in {_generate_embedding(data.facial_image_base64,
                                            urandom)} :
            \E enc_bytes \in {_vector_to_bytes(vec, fernet)} :
            \E student \in {EnrollStudent(data, Len(students) + 1,
                                          Len(users) + 1, enc_bytes)} :
              /\ keys_generated' = KeysAfter(fernet_env, keys_generated)
              /\ last_key' = Some(fernet)
              /\ IF ~StudentChecksHold(student.year, student.semester)
                 THEN \* IntegrityError at commit: the session rolls back
                      /\ response' = [Error(500, "server_error") EXCEPT
                                        !.encrypted = TRUE]
                      /\ UNCHANGED <<users, students, enrolled_image>>
                 ELSE /\ users' = Append(users,
                                     EnrollUser(data, Len(users) + 1))
                      /\ students' = Append(students, student)
                      /\ enrolled_image' =
                           Append(enrolled_image, data.facial_image_base64)
                      /\ response' = [NoResponse EXCEPT
                                        !.status = 200,
                                        !.message = "enrolled",
                                        !.student_id = Some(student.id),
                                        !.encrypted = TRUE]
    /\ UNCHANGED <<phase, fernet_env, classes, attendance, issued_tokens>>

\* the response of api_recognize up to the threshold test
Scanned(found, probe) ==
    [NoResponse EXCEPT
       !.status = 200, !.score = Some(found.best_score),
       !.best = IF found.best = None THEN None ELSE Some(found.best[1].id),
       !.scanned = found.scanned, !.probe = Some(probe)]

\* POST /api/recognize
api_recognize(image_b64, urandom) ==
    /\ phase = "serving"
    /\ request' = [NoRequest EXCEPT !.op = "recognize",
                                    !.facial_image_base64 = image_b64]
    /\ IF image_b64 = ""
       THEN /\ response' = Error(400, "missing_image")
            /\ UNCHANGED <<keys_generated, last_key, attendance>>
       ELSE
         /\ CanGetFernet
         /\ \E fernet \in {_get_fernet(fernet_env, keys_generated)} :
            \E probe \in {_generate_embedding(image_b64, urandom)} :
            \E found \in {Scan(students, users, probe, fernet, ScanStart)} :
              /\ keys_generated' = KeysAfter(fernet_env, keys_generated)
              /\ last_key' = Some(fernet)
              /\ IF ~Confirmed(found.best, found.best_score)
                 THEN /\ response' = [Scanned(found, probe) EXCEPT
                                        !.matched = Some(FALSE)]
                      /\ UNCHANGED attendance
                 ELSE \E now \in Clock :
                      \E current \in {_find_current_class(classes, now)} :
                        IF current = None
                        THEN /\ response' =
                                  [Scanned(found, probe) EXCEPT
                                     !.matched = Some(TRUE),
                                     !.attendance_logged = Some(FALSE),
                                     !.reason = "no_active_class",
                                     !.now = Some(now)]
                             /\ UNCHANGED attendance
                        ELSE /\ Logged < MaxLogged
                             /\ attendance' = Append(attendance,
                                  [id |-> Len(attendance) + 1,
                                   student_id |-> found.best[1].id,
                                   class_id |-> current[1].id,
                                   timestamp |-> now,
                                   status |-> "present"])
                             /\ response' =
                                  [Scanned(found, probe) EXCEPT
                                     !.matched = Some(TRUE),
                                     !.attendance_logged = Some(TRUE),
                                     !.student = Some(PublicAttributes(
                                                        found.best[1])),
                                     !.class = Some(ClassAttributes(
                                                      current[1])),
                                     !.now = Some(now)]
    /\ UNCHANGED <<phase, fernet_env, users, students, classes,
                   enrolled_image, issued_tokens>>

----------------------------------------------------------------------------
(* The handlers served by threads side by side.  A handler reads the       *)
(* tables in one step and writes them in a later one; SQLite serializes    *)
(* the write transactions, so flush and commit are one step.               *)

\* the tables with only the CHECK constraints of table students declared
IntegrityHolds_ChecksOnly(user, student, tblUsers, tblStudents) ==
    StudentChecksHold(student.year, student.semester)

\* the UNIQUE and CHECK constraints the INSERTs of api_enroll must pass
IntegrityHolds(user, student, tblUsers, tblStudents) ==
    /\ \A k \in 1..Len(tblUsers) : tblUsers[k].username # user.username
    /\ \A k \in 1..Len(tblStudents) :
         /\ tblStudents[k].registration_number # student.registration_number
         /\ tblStudents[k].user_id # student.user_id
    /\ StudentChecksHold(student.year, student.semester)

\* the Attendance row written over the latest row of the table
LogAttendance_ReplacesLast(tbl, student_id, class_id, now) ==
    IF tbl = <<>>
    THEN <<[id |-> 1, student_id |-> student_id, class_id |-> class_id,
            timestamp |-> now, status |-> "present"]>>
    ELSE [tbl EXCEPT ![Len(tbl)] =
            [id |-> Len(tbl), student_id |-> student_id,
             class_id |-> class_id, timestamp |-> now,
             status |-> "present"]]

\* the Attendance row of lines 411-418 added to the table
LogAttendance(tbl, student_id, class_id, now) ==
    Append(tbl, [id |-> Len(tbl) + 1, student_id |-> student_id,
                 class_id |-> class_id, timestamp |-> now,
                 status |-> "present"])

\* rows the threaded api_recognize has appended so far
ThreadLogged == Len(attendance) - Min(5, Len(names))

\* api_enroll, lines 333-352: the body is read and checked against the
\* tables as they are now
enroll_begin(w, data) ==
    /\ phase = "serving"
    /\ inflight[w] = Idle
    /\ inflight' = [inflight EXCEPT ![w] =
                      [op |-> "enroll", data |-> data,
                       outcome |-> EnrollRejection(data, users, students)]]
    /\ UNCHANGED <<phase, fernet_env, keys_generated, last_key, users,
                   students, classes, attendance, enrolled_image,
                   issued_tokens, request, response>>

\* api_enroll, the return of an error or lines 354-378: the rows are
\* inserted against the tables as they are by now
enroll_finish(w, urandom) ==
    /\ inflight[w].op = "enroll"
    /\ inflight' = [inflight EXCEPT ![w] = Idle]
    /\ request' = inflight[w].data
    /\ IF inflight[w].outcome # NoResponse
       THEN /\ response' = inflight[w].outcome
            /\ UNCHANGED <<keys_generated, last_key, users, students,
                           enrolled_image>>
       ELSE
         /\ CanGetFernet
         /\ \E data \in {inflight[w].data} :
            \E fernet \in {_get_fernet(fernet_env, keys_generated)} :
            \E vec \in {_generate_embedding(data.facial_image_base64,
                                            urandom)} :
            \E user \in {EnrollUser(data, Len(users) + 1)} :
            \E student \in {EnrollStudent(data, Len(students) + 1,
                              Len(users) + 1, _vector_to_bytes(vec, fernet))} :
              /\ keys_generated' = KeysAfter(fernet_env, keys_generated)
              /\ last_key' = Some(fernet)
              /\ IF ~IntegrityHolds(user, student, users, students)
                 THEN \* IntegrityError: the session rolls back
                      /\ response' = [Error(500, "server_error") EXCEPT
                                        !.encrypted = TRUE]
                      /\ UNCHANGED <<users, students, enrolled_image>>
                 ELSE /\ users' = Append(users, user)
                      /\ students' = Append(students, student)
                      /\ enrolled_image' =
                           Append(enrolled_image, data.facial_image_base64)
                      /\ response' = [NoResponse EXCEPT
                                        !.status = 200,
                                        !.message = "enrolled",
                                        !.student_id = Some(student.id),
                                        !.encrypted = TRUE]
    /\ UNCHANGED <<phase, fernet_env, classes, attendance, issued_tokens>>

\* api_recognize, lines 383-404: the scan of the tables as they are now
recognize_begin(w, image_b64, urandom) ==
    /\ phase = "serving"
    /\ inflight[w] = Idle
    /\ \E data \in {[NoRequest EXCEPT !.op = "recognize",
                                     !.facial_image_base64 = image_b64]} :
       IF image_b64 = ""
       THEN /\ inflight' = [inflight EXCEPT ![w] =
                  [op |-> "recognize", data |-> data,
                   outcome |-> Error(400, "missing_image")]]
            /\ UNCHANGED <<keys_generated, last_key>>
       ELSE
         /\ CanGetFernet
         /\ \E fernet \in {_get_fernet(fernet_env, keys_generated)} :
            \E probe \in {_generate_embedding(image_b64, urandom)} :
            \E found \in {Scan(students, users, probe, fernet, ScanStart)} :
              /\ keys_generated' = KeysAfter(fernet_env, keys_generated)
              /\ last_key' = Some(fernet)
              /\ inflight' = [inflight EXCEPT ![w] =
                   [op |-> "recognize", data |-> data,
                    outcome |-> [Scanned(found, probe) EXCEPT
                       !.matched = Some(Confirmed(found.best,
                                                  found.best_score))]]]
    /\ UNCHANGED <<phase, fernet_env, users, students, classes, attendance,
                   enrolled_image, issued_tokens, request, response>>

\* POST /api/enroll bodies sent side by side: one registration number
\* under two usernames, one username for two registration numbers, and a
\* body without consent
ThreadEnrollBodies ==
    { EnrollBody("Ann", "R1", "", Secret, "imgA", "true", None, None),
      EnrollBody("Bob", "R1", "bob", <<>>, "imgC", "true", None, None),
      EnrollBody("Ben", "R2", "R1", <<>>, "imgA", "true", None, None),
      EnrollBody("Ann", "R1", "", Secret, "imgA", "false", None, None) }

\* POST /api/recognize bodies sent side by side
ThreadRecognizeImages == {"", "imgA"}

\* readings of datetime.now() while threads overlap: in and out of the
\* seeded window
ThreadClock ==
    { [day |-> "Mon", t |-> 9 * 60], [day |-> "Tue", t |-> 10 * 60] }

\* api_recognize, lines 404-438: the answer, with the Attendance row when
\* the match is confirmed and a class is in session at this moment
recognize_finish(w) ==
    /\ inflight[w].op = "recognize"
    /\ inflight' = [inflight EXCEPT ![w] = Idle]
    /\ request' = inflight[w].data
    /\ \E seen \in {inflight[w].outcome} :
       IF seen.matched # Some(TRUE)
       THEN /\ response' = seen
            /\ UNCHANGED attendance
       ELSE \E now \in ThreadClock :
            \E current \in {_find_current_class(classes, now)} :
              IF current = None
              THEN /\ response' = [seen EXCEPT
                                     !.attendance_logged = Some(FALSE),
                                     !.reason = "no_active_class",
                                     !.now = Some(now)]
                   /\ UNCHANGED attendance
              ELSE /\ ThreadLogged < MaxThreadLogged
                   /\ attendance' = LogAttendance(attendance, seen.best[1],
                                                  current[1].id, now)
                   /\ response' =
                        [seen EXCEPT
                           !.attendance_logged = Some(TRUE),
                           !.student = Some(PublicAttributes(
                                              students[seen.best[1]])),
                           !.class = Some(ClassAttributes(current[1])),
                           !.now = Some(now)]
    /\ UNCHANGED <<phase, fernet_env, keys_generated, last_key, users,
                   students, classes, enrolled_image, issued_tokens>>


Login ==
    /\ \E b \in LoginBodies : api_login(b[1], b[2])
    /\ UNCHANGED inflight

LoginProbe ==
    /\ \E b \in LoginProbes : api_login(b[1], b[2])
    /\ UNCHANGED inflight

Consent ==
    /\ \E uid \in issued_tokens, c \in ConsentValues : api_consent(uid, c)
    /\ UNCHANGED inflight

Enroll ==
    /\ \E data \in EnrollBodies :
          \E urandom \in UrandomFor(data.facial_image_base64) :
              api_enroll(data, urandom)
    /\ UNCHANGED inflight

EnrollProbe ==
    /\ \E data \in EnrollProbes :
          \E urandom \in UrandomFor(data.facial_image_base64) :
              api_enroll(data, urandom)
    /\ UNCHANGED inflight

Recognize ==
    /\ \E image \in RecognizeImages :
          \E urandom \in UrandomFor(image) : api_recognize(image, urandom)
    /\ UNCHANGED inflight

EnrollBegin ==
    \E w \in Threads, data \in ThreadEnrollBodies : enroll_begin(w, data)

EnrollFinish ==
    \E w \in Threads :
        \E urandom \in UrandomFor(inflight[w].data.facial_image_base64) :
            enroll_finish(w, urandom)

RecognizeBegin ==
    \E w \in Threads, image \in ThreadRecognizeImages :
        \E urandom \in UrandomFor(image) : recognize_begin(w, image, urandom)

RecognizeFinish == \E w \in Threads : recognize_finish(w)

\* The service: every handler, with the well-formed requests
Next ==
    \/ initialize_database_with_demo_data
    \/ Login
    \/ Consent
    \/ Enroll
    \/ Recognize

Spec == Init /\ [][Next]_vars

\* Enrollment under the wider set of bodies
NextEnroll ==
    \/ initialize_database_with_demo_data
    \/ Login
    \/ Consent
    \/ EnrollProbe

SpecEnroll == Init /\ [][NextEnroll]_vars

\* Login under the wider set of guesses
NextLogin ==
    \/ initialize_database_with_demo_data
    \/ Enroll
    \/ LoginProbe

SpecLogin == Init /\ [][NextLogin]_vars

\* Two threads serving enroll and recognize requests side by side
NextThreads ==
    \/ initialize_database_with_demo_data
    \/ Login
    \/ Consent
    \/ EnrollBegin
    \/ EnrollFinish
    \/ RecognizeBegin
    \/ RecognizeFinish

SpecThreads == Init /\ [][NextThreads]_vars

\* ------------------------------------------------------------------
\* Properties
\* ------------------------------------------------------------------

\* the response on hand is that of a POST /api/recognize that ran its scan
Recognized == request.op = "recognize" /\ response.status = 200

\* C2: within one process every call of _get_fernet yields the same key,
\* so every ciphertext written by an earlier request is decryptable by
\* the key of the latest request
C2_KeyStable ==
    last_key # None =>
        \A i \in 1..Len(students) :
            students[i].facial_embedding # None =>
                FernetDecrypt(last_key[1],
                              students[i].facial_embedding[1]) # None

\* C1: after a student was enrolled with consent from an image (here one
\* that base64-decodes) and consent still stands, recognizing the same
\* image matches with score 1.0, whether or not ATTENDIFY_FERNET_KEY is
\* configured
C1_EnrollThenRecognizeMatches ==
    Recognized =>
        \A i \in 1..Len(students) :
            ( /\ i <= Len(enrolled_image)
              /\ enrolled_image[i] # ""
              /\ enrolled_image[i] = request.facial_image_base64
              /\ b64decode(enrolled_image[i]) # None
              /\ users[students[i].user_id].consent_given )
            => /\ response.matched = Some(TRUE)
               /\ response.score = Some(ScoreScale)

\* an enroll request that names every required field and whose consent is
\* false or absent
EnrollWithoutConsent(data) ==
    /\ data.op = "enroll"
    /\ "" \notin {data.name, data.reg_no, data.course,
                  data.facial_image_base64}
    /\ data.consent \in {"false", "absent"}

\* the step answered 403 consent_required and stored nothing
RefusedForConsent ==
    /\ response'.status = 403
    /\ response'.error = "consent_required"
    /\ ~response'.encrypted
    /\ UNCHANGED <<users, students, enrolled_image, keys_generated,
                   last_key>>

\* every Student row the step added carries an embedding only for a user
\* whose consent was true when the row was written
EmbeddingsNeedConsent ==
    \A i \in (Len(students) + 1)..Len(students') :
        students'[i].facial_embedding # None =>
            /\ students'[i].user_id \in 1..Len(users')
            /\ users'[students'[i].user_id].consent_given
            /\ (request'.op = "enroll" => request'.consent \in {"true", "str"})

\* C3 as stated: an enroll request with all required fields and consent
\* false or absent always gets 403 consent_required and creates nothing
C3_NoConsentAlways403 ==
    [][ EnrollWithoutConsent(request') => RefusedForConsent ]_vars

\* C3: an enroll request with all required fields, year and semester
\* absent or convertible to an integer, and consent false or absent gets
\* 403 consent_required, creates no User or Student row and generates and
\* encrypts no embedding; and every stored embedding was created for a
\* subject whose consent was true at creation time
C3_NoConsentRejected ==
    [][ /\ ( /\ EnrollWithoutConsent(request')
             /\ \A v \in {request'.year, request'.semester} :
                  v = None \/ (v[1] # <<>> /\ \A k \in 1..Len(v[1]) :
                                 v[1][k] \in {"0", "1", "2", "3", "4",
                                              "5", "6", "7", "8", "9"}) )
           => RefusedForConsent
        /\ EmbeddingsNeedConsent ]_vars

\* a refusal for consent that came after a successful enrollment
C3_Witness ==
    /\ EnrollWithoutConsent(request)
    /\ request.year # None
    /\ response.status = 403
    /\ Len(students) > Len(names)

\* the rows of table students a scan may read: the user exists and has
\* consent, and the row holds an embedding
Candidates ==
    { i \in 1..Len(students) :
        /\ students[i].user_id \in 1..Len(users)
        /\ users[students[i].user_id].consent_given
        /\ students[i].facial_embedding # None }

\* the candidates whose embedding the latest key opens as a JSON list
Readable ==
    { i \in Candidates :
        /\ students[i].facial_embedding[1].key = last_key[1]
        /\ json_loads(students[i].facial_embedding[1].data) # None }

\* the cosine score of readable candidate i against the request's probe
ScoreOf(i) ==
    _cosine_similarity(response.probe[1],
        json_loads(students[i].facial_embedding[1].data)[1])

\* C4: api_recognize never returns as best match, and never logs
\* attendance for, a student whose user lacks consent or whose row has no
\* embedding; such rows are skipped without an error and the scan reads
\* every other row
C4_ExcludedNeverMatched ==
    Recognized =>
        /\ response.error = ""
        /\ response.best # None => response.best[1] \in Candidates
        /\ response.attendance_logged = Some(TRUE) =>
             /\ attendance[Len(attendance)].student_id \in Candidates
             /\ attendance[Len(attendance)].student_id = response.best[1]
        /\ \A i \in 1..Len(students) :
             (i \in Candidates) <=>
                (\E k \in 1..Len(response.scanned) : response.scanned[k] = i)

\* a match returned while an enrolled student's consent is revoked
C4_Witness ==
    /\ Recognized
    /\ response.matched = Some(TRUE)
    /\ \E i \in 1..Len(students) :
         /\ i \notin Candidates
         /\ students[i].facial_embedding # None
         /\ enrolled_image[i] = request.facial_image_base64

\* C5: matched is true exactly when a candidate was selected and the best
\* score is at least 0.8 (0.8 itself included); below that matched is
\* false and the raw best score is still returned
C5_ThresholdInclusive ==
    Recognized =>
        /\ response.matched \in {Some(TRUE), Some(FALSE)}
        /\ response.score # None
        /\ (response.matched = Some(TRUE)) <=>
             (response.best # None /\ 10 * response.score[1] >= 8 * ScoreScale)
        /\ response.matched = Some(FALSE) =>
             /\ \A i \in Readable : ScoreOf(i) <= response.score[1]
             /\ Readable # {} =>
                  \E i \in Readable : ScoreOf(i) = response.score[1]
             /\ Readable = {} => response.score[1] = 0

\* a match at a score of exactly 0.8
C5_Witness ==
    /\ Recognized
    /\ response.matched = Some(TRUE)
    /\ 10 * response.score[1] = 8 * ScoreScale

\* C6: the selected student has the maximum score over the candidates the
\* scan could read, and among candidates with that score it is the first
\* in iteration order
C6_FirstMaximum ==
    Recognized =>
        IF Readable = {} THEN response.best = None
        ELSE /\ response.best # None
             /\ response.best[1] \in Readable
             /\ response.score = Some(ScoreOf(response.best[1]))
             /\ \A i \in Readable :
                  /\ ScoreOf(i) <= ScoreOf(response.best[1])
                  /\ ScoreOf(i) = ScoreOf(response.best[1]) =>
                       response.best[1] <= i

\* two readable candidates tie at the best score
C6_Witness ==
    /\ Recognized
    /\ response.best # None
    /\ \E i \in Readable :
         /\ i > response.best[1]
         /\ ScoreOf(i) = response.score[1]

\* table students without the candidates the latest key cannot read
WithoutUnreadable ==
    SelectSeq(students, LAMBDA r : r.id \notin Candidates \ Readable)

\* C7: a candidate whose embedding fails to decrypt or decode is skipped
\* and the scan goes on: the best match and score are those of the same
\* scan over the table with that row absent
C7_UnreadableSkipped ==
    Recognized =>
        LET rest == Scan(WithoutUnreadable, users, response.probe[1],
                         last_key[1], ScanStart)
        IN /\ response.score = Some(rest.best_score)
           /\ response.best = IF rest.best = None THEN None
                              ELSE Some(rest.best[1].id)
           /\ \A i \in Candidates :
                \E k \in 1..Len(response.scanned) : response.scanned[k] = i

\* a match found past rows the key cannot read
C7_Witness ==
    /\ Recognized
    /\ response.matched = Some(TRUE)
    /\ \E i \in Candidates \ Readable : i < response.best[1]

\* the classes in session at the moment now, both ends included
InSession(now) ==
    { k \in 1..Len(classes) :
        /\ classes[k].day_of_week = now.day
        /\ classes[k].start_time <= now.t
        /\ now.t <= classes[k].end_time }

\* C8: when the best match passes the threshold and no class is in
\* session, the response has matched true and attendance_logged false and
\* no Attendance row is added; when a class is in session (start and end
\* minute included) exactly one row is added, for the matched student and
\* that class
C8_LoggedOnlyInSession ==
    [][ (request'.op = "recognize" /\ response'.matched = Some(TRUE)) =>
          /\ response'.now # None
          /\ IF InSession(response'.now[1]) = {}
             THEN /\ response'.attendance_logged = Some(FALSE)
                  /\ attendance' = attendance
             ELSE /\ response'.attendance_logged = Some(TRUE)
                  /\ Len(attendance') = Len(attendance) + 1
                  /\ SubSeq(attendance', 1, Len(attendance)) = attendance
                  /\ LET a == attendance'[Len(attendance')]
                     IN /\ a.student_id = response'.best[1]
                        /\ a.class_id \in InSession(response'.now[1])
                        /\ a.status = "present"
                        /\ a.timestamp = response'.now[1] ]_vars

\* attendance logged in the last minute of a class
C8_Witness ==
    /\ request.op = "recognize"
    /\ response.attendance_logged = Some(TRUE)
    /\ \E k \in 1..Len(classes) : response.now[1].t = classes[k].end_time

\* C9: every response with matched true exposes the matched student's
\* public attributes, whether or not attendance was logged
C9_MatchExposesStudent ==
    (request.op = "recognize" /\ response.matched = Some(TRUE)) =>
        /\ response.student # None
        /\ response.student[1].id = response.best[1]
        /\ response.student[1].name = students[response.best[1]].name

\* C10: api_login issues a token only when the user exists and the
\* password is the user's own; any other password, the empty one or a
\* part of it included, gets 401 invalid_credentials
C10_TokenOnlyForPassword ==
    request.op = "login" =>
        LET hit == { i \in 1..Len(users) :
                       /\ users[i].username = request.username
                       /\ users[i].password_hash =
                            PassPrefix \o request.password }
        IN IF hit = {}
           THEN /\ response.status = 401
                /\ response.error = "invalid_credentials"
                /\ response.access_token = None
           ELSE /\ response.status = 200
                /\ response.access_token # None
                /\ response.access_token[1] \in hit

\* no two users share a username, no two students share a registration
\* number, and no user has two student rows
UniqueKeys ==
    /\ \A i, j \in 1..Len(users) :
         i # j => users[i].username # users[j].username
    /\ \A i, j \in 1..Len(students) :
         i # j => /\ students[i].registration_number #
                       students[j].registration_number
                  /\ students[i].user_id # students[j].user_id

\* the username an enroll body asks for is in table users
UsernameTaken(data) ==
    \E k \in 1..Len(users) :
        users[k].username =
            (IF data.username = "" THEN data.reg_no ELSE data.username)

\* the registration number an enroll body asks for is in table students
RegNoTaken(data) ==
    \E k \in 1..Len(students) :
        students[k].registration_number = data.reg_no

C12_EmbeddingKept ==
    [][ /\ Len(students') >= Len(students)
        /\ \A i \in 1..Len(students) :
             /\ students'[i].facial_embedding = students[i].facial_embedding
             /\ students'[i] = students[i]
        /\ Len(users') >= Len(users)
        /\ \A k \in 1..Len(users) :
             users'[k] = [users[k] EXCEPT
                            !.consent_given = users'[k].consent_given] ]_vars

\* a recognition was answered after an enrolled student's consent was
\* withdrawn, and the student's ciphertext is still stored
C12_Witness ==
    /\ request.op = "recognize"
    /\ response.status = 200
    /\ \E i \in (Len(names) + 1)..Len(students) :
         /\ ~users[students[i].user_id].consent_given
         /\ students[i].facial_embedding # None
         /\ i \notin { response.scanned[k] : k \in 1..Len(response.scanned) }

\* C13: api_recognize never writes users, students or their embeddings.
\* Its scan writes no table; its answer appends exactly one Attendance row
\* (status present, the best match's student_id, a class in session) when
\* the match is confirmed and a class is in session, and writes no table
\* on any other outcome.  With two recognitions in progress neither
\* touches the other's request, and each append keeps every row already
\* in the table
C13_RecognizeOnlyAppends ==
    [][ \A w \in Threads :
          /\ (inflight[w] = Idle /\ inflight'[w].op = "recognize") =>
               /\ UNCHANGED <<users, students, classes, attendance,
                              issued_tokens, enrolled_image>>
               /\ \A o \in Threads \ {w} : inflight'[o] = inflight[o]
          /\ (inflight[w].op = "recognize" /\ inflight'[w] = Idle) =>
               /\ UNCHANGED <<users, students, classes, issued_tokens,
                              enrolled_image>>
               /\ \A o \in Threads \ {w} : inflight'[o] = inflight[o]
               /\ response'.matched = inflight[w].outcome.matched
               /\ response'.score = inflight[w].outcome.score
               /\ IF /\ inflight[w].outcome.matched = Some(TRUE)
                     /\ InSession(response'.now[1]) # {}
                  THEN /\ Len(attendance') = Len(attendance) + 1
                       /\ \A k \in 1..Len(attendance) :
                            attendance'[k] = attendance[k]
                       /\ LET a == attendance'[Len(attendance')]
                          IN /\ a.status = "present"
                             /\ a.student_id = inflight[w].outcome.best[1]
                             /\ a.class_id \in InSession(response'.now[1])
                       /\ response'.attendance_logged = Some(TRUE)
                  ELSE /\ attendance' = attendance
                       /\ response'.attendance_logged # Some(TRUE) ]_vars

\* one recognition has just logged its row while another, whose scan also
\* confirmed a match, is still in progress, after an earlier row was logged
C13_Witness ==
    /\ request.op = "recognize"
    /\ response.attendance_logged = Some(TRUE)
    /\ ThreadLogged = 2
    /\ \E w \in Threads :
         /\ inflight[w].op = "recognize"
         /\ inflight[w].outcome.matched = Some(TRUE)

====
